---- MODULE Spec2Model ----
(***************************************************************************)
(* Flask user-management API (src/app.py): the in-memory UserManager      *)
(* store, its validation routine and the request handlers, as a state     *)
(* machine that handles one request per step.                             *)
(*                                                                        *)
(* Representation.  A Python string is the sequence of the code points of *)
(* its characters (the tables of str.lower(), str.strip() and int() are   *)
(* those of Unicode 14, which Python 3.11 carries).  A JSON value is a    *)
(* tagged record: None, StrV(s), IntV(n), and Absent for a key that the   *)
(* JSON object does not carry.  A timestamp is the number of clock        *)
(* seconds since the seed timestamp.                                      *)
(***************************************************************************)
EXTENDS Integers, Sequences, FiniteSets, TLC

VARIABLES
    users,      \* UserManager.users: id -> record
    next_id,    \* UserManager.next_id
    clock,      \* the reading of datetime.now()
    req,        \* the request handled last
    resp,       \* its response
    assigned,   \* history: every id that a record has had
    created,    \* history: POSTs answered 201
    deleted,    \* history: DELETEs answered 200
    nreq,       \* history: requests handled
    threads     \* the POST /users requests in flight: thread -> its position

vars == <<users, next_id, clock, req, resp, assigned, created, deleted, nreq, threads>>

(***************************************************************************)
(* Bounds of the model.                                                   *)
(***************************************************************************)
\* requests handled in one run
MaxReq == 3
\* largest identifier that a create may assign
MaxId == 5
\* largest reading of the clock
MaxClock == 1
\* POST /users requests handled at the same time
MaxThreads == 2

(***************************************************************************)
(* Python values                                                          *)
(***************************************************************************)
Absent == [t |-> "absent", v |-> <<>>]
None == [t |-> "null", v |-> <<>>]
StrV(s) == [t |-> "str", v |-> s]
IntV(n) == [t |-> "int", v |-> <<n>>]

IsStr(x) == x.t = "str"
IsInt(x) == x.t = "int"
IntOf(x) == x.v[1]

\* `key in data`
Has(x) == x.t # "absent"

\* bool(x): None, '' and 0 are falsy
Truthy(x) ==
    CASE x.t = "str" -> Len(x.v) > 0
      [] x.t = "int" -> IntOf(x) # 0
      [] OTHER -> FALSE

\* dict.get(key): None for a missing key
Get(x) == IF Has(x) THEN x ELSE None

(***************************************************************************)
(* Python strings                                                         *)
(***************************************************************************)
\* the characters of a literal: ' ' (32) to '_' (95), and 'a' (97) to '~' (126)
AsciiLow ==
    <<" ","!","\"","#","$","%","&","'","(",")","*","+",",","-",".","/",
      "0","1","2","3","4","5","6","7","8","9",":",";","<","=",">","?",
      "@","A","B","C","D","E","F","G","H","I","J","K","L","M","N","O",
      "P","Q","R","S","T","U","V","W","X","Y","Z","[","\\","]","^","_">>
AsciiHigh ==
    <<"a","b","c","d","e","f","g","h","i","j","k","l","m","n","o",
      "p","q","r","s","t","u","v","w","x","y","z","{","|","}","~">>

\* ord(c) of a character written in a literal
Ord(c) ==
    CASE c = "\t" -> 9
      [] c = "\n" -> 10
      [] c = "\f" -> 12
      [] c = "\r" -> 13
      [] \E i \in DOMAIN AsciiLow : AsciiLow[i] = c ->
            31 + CHOOSE i \in DOMAIN AsciiLow : AsciiLow[i] = c
      [] OTHER -> 96 + CHOOSE i \in DOMAIN AsciiHigh : AsciiHigh[i] = c

\* a string literal: the code points of its characters
Str(s) == [i \in 1..Len(s) |-> Ord(s[i])]

Range(f) == {f[i] : i \in DOMAIN f}

\* [a-zA-Z] and [0-9] of the regular expression
Letters == (65..90) \cup (97..122)
Digits == 48..57

\* the characters str.strip() removes: those with str.isspace()
Whitespace ==
    (9..13) \cup (28..32) \cup {133, 160, 5760} \cup (8192..8202)
    \cup {8232, 8233, 8239, 8287, 12288}

\* the blanks int() skips at both ends: the same but for U+001C..U+001F
IntWhitespace == Whitespace \ (28..31)

SetMin(S) == CHOOSE x \in S : \A y \in S : x <= y
SetMax(S) == CHOOSE x \in S : \A y \in S : y <= x

\* the digit 0 of every run of ten decimal digits that int() reads
DigitZeros ==
    {48, 1632, 1776, 1984, 2406, 2534, 2662, 2790, 2918, 3046, 3174, 3302,
      3430, 3558, 3664, 3792, 3872, 4160, 4240, 6112, 6160, 6470, 6608, 6784,
      6800, 6992, 7088, 7232, 7248, 42528, 43216, 43264, 43472, 43504, 43600, 44016,
      65296, 66720, 68912, 69734, 69872, 69942, 70096, 70384, 70736, 70864, 71248, 71360,
      71472, 71904, 72016, 72784, 73040, 73120, 92768, 92864, 93008, 120782, 120792, 120802,
      120812, 120822, 123200, 123632, 125264, 130032}

\* str.lower() of the characters it maps to one character: <<first, last,
\* step, offset>>, the lowercase of first, first + step, .., last being the
\* character plus offset
LowerRanges ==
    <<<<65, 90, 1, 32>>, <<192, 214, 1, 32>>, <<216, 222, 1, 32>>, <<256, 302, 2, 1>>,
      <<306, 310, 2, 1>>, <<313, 327, 2, 1>>, <<330, 374, 2, 1>>, <<376, 376, 1, -121>>,
      <<377, 381, 2, 1>>, <<385, 385, 1, 210>>, <<386, 388, 2, 1>>, <<390, 390, 1, 206>>,
      <<391, 391, 1, 1>>, <<393, 394, 1, 205>>, <<395, 395, 1, 1>>, <<398, 398, 1, 79>>,
      <<399, 399, 1, 202>>, <<400, 400, 1, 203>>, <<401, 401, 1, 1>>, <<403, 403, 1, 205>>,
      <<404, 404, 1, 207>>, <<406, 406, 1, 211>>, <<407, 407, 1, 209>>, <<408, 408, 1, 1>>,
      <<412, 412, 1, 211>>, <<413, 413, 1, 213>>, <<415, 415, 1, 214>>, <<416, 420, 2, 1>>,
      <<422, 422, 1, 218>>, <<423, 423, 1, 1>>, <<425, 425, 1, 218>>, <<428, 428, 1, 1>>,
      <<430, 430, 1, 218>>, <<431, 431, 1, 1>>, <<433, 434, 1, 217>>, <<435, 437, 2, 1>>,
      <<439, 439, 1, 219>>, <<440, 440, 1, 1>>, <<444, 444, 1, 1>>, <<452, 452, 1, 2>>,
      <<453, 453, 1, 1>>, <<455, 455, 1, 2>>, <<456, 456, 1, 1>>, <<458, 458, 1, 2>>,
      <<459, 475, 2, 1>>, <<478, 494, 2, 1>>, <<497, 497, 1, 2>>, <<498, 500, 2, 1>>,
      <<502, 502, 1, -97>>, <<503, 503, 1, -56>>, <<504, 542, 2, 1>>, <<544, 544, 1, -130>>,
      <<546, 562, 2, 1>>, <<570, 570, 1, 10795>>, <<571, 571, 1, 1>>, <<573, 573, 1, -163>>,
      <<574, 574, 1, 10792>>, <<577, 577, 1, 1>>, <<579, 579, 1, -195>>, <<580, 580, 1, 69>>,
      <<581, 581, 1, 71>>, <<582, 590, 2, 1>>, <<880, 882, 2, 1>>, <<886, 886, 1, 1>>,
      <<895, 895, 1, 116>>, <<902, 902, 1, 38>>, <<904, 906, 1, 37>>, <<908, 908, 1, 64>>,
      <<910, 911, 1, 63>>, <<913, 929, 1, 32>>, <<931, 939, 1, 32>>, <<975, 975, 1, 8>>,
      <<984, 1006, 2, 1>>, <<1012, 1012, 1, -60>>, <<1015, 1015, 1, 1>>, <<1017, 1017, 1, -7>>,
      <<1018, 1018, 1, 1>>, <<1021, 1023, 1, -130>>, <<1024, 1039, 1, 80>>, <<1040, 1071, 1, 32>>,
      <<1120, 1152, 2, 1>>, <<1162, 1214, 2, 1>>, <<1216, 1216, 1, 15>>, <<1217, 1229, 2, 1>>,
      <<1232, 1326, 2, 1>>, <<1329, 1366, 1, 48>>, <<4256, 4293, 1, 7264>>, <<4295, 4295, 1, 7264>>,
      <<4301, 4301, 1, 7264>>, <<5024, 5103, 1, 38864>>, <<5104, 5109, 1, 8>>, <<7312, 7354, 1, -3008>>,
      <<7357, 7359, 1, -3008>>, <<7680, 7828, 2, 1>>, <<7838, 7838, 1, -7615>>, <<7840, 7934, 2, 1>>,
      <<7944, 7951, 1, -8>>, <<7960, 7965, 1, -8>>, <<7976, 7983, 1, -8>>, <<7992, 7999, 1, -8>>,
      <<8008, 8013, 1, -8>>, <<8025, 8031, 2, -8>>, <<8040, 8047, 1, -8>>, <<8072, 8079, 1, -8>>,
      <<8088, 8095, 1, -8>>, <<8104, 8111, 1, -8>>, <<8120, 8121, 1, -8>>, <<8122, 8123, 1, -74>>,
      <<8124, 8124, 1, -9>>, <<8136, 8139, 1, -86>>, <<8140, 8140, 1, -9>>, <<8152, 8153, 1, -8>>,
      <<8154, 8155, 1, -100>>, <<8168, 8169, 1, -8>>, <<8170, 8171, 1, -112>>, <<8172, 8172, 1, -7>>,
      <<8184, 8185, 1, -128>>, <<8186, 8187, 1, -126>>, <<8188, 8188, 1, -9>>, <<8486, 8486, 1, -7517>>,
      <<8490, 8490, 1, -8383>>, <<8491, 8491, 1, -8262>>, <<8498, 8498, 1, 28>>, <<8544, 8559, 1, 16>>,
      <<8579, 8579, 1, 1>>, <<9398, 9423, 1, 26>>, <<11264, 11311, 1, 48>>, <<11360, 11360, 1, 1>>,
      <<11362, 11362, 1, -10743>>, <<11363, 11363, 1, -3814>>, <<11364, 11364, 1, -10727>>, <<11367, 11371, 2, 1>>,
      <<11373, 11373, 1, -10780>>, <<11374, 11374, 1, -10749>>, <<11375, 11375, 1, -10783>>, <<11376, 11376, 1, -10782>>,
      <<11378, 11378, 1, 1>>, <<11381, 11381, 1, 1>>, <<11390, 11391, 1, -10815>>, <<11392, 11490, 2, 1>>,
      <<11499, 11501, 2, 1>>, <<11506, 11506, 1, 1>>, <<42560, 42604, 2, 1>>, <<42624, 42650, 2, 1>>,
      <<42786, 42798, 2, 1>>, <<42802, 42862, 2, 1>>, <<42873, 42875, 2, 1>>, <<42877, 42877, 1, -35332>>,
      <<42878, 42886, 2, 1>>, <<42891, 42891, 1, 1>>, <<42893, 42893, 1, -42280>>, <<42896, 42898, 2, 1>>,
      <<42902, 42920, 2, 1>>, <<42922, 42922, 1, -42308>>, <<42923, 42923, 1, -42319>>, <<42924, 42924, 1, -42315>>,
      <<42925, 42925, 1, -42305>>, <<42926, 42926, 1, -42308>>, <<42928, 42928, 1, -42258>>, <<42929, 42929, 1, -42282>>,
      <<42930, 42930, 1, -42261>>, <<42931, 42931, 1, 928>>, <<42932, 42946, 2, 1>>, <<42948, 42948, 1, -48>>,
      <<42949, 42949, 1, -42307>>, <<42950, 42950, 1, -35384>>, <<42951, 42953, 2, 1>>, <<42960, 42960, 1, 1>>,
      <<42966, 42968, 2, 1>>, <<42997, 42997, 1, 1>>, <<65313, 65338, 1, 32>>, <<66560, 66599, 1, 40>>,
      <<66736, 66771, 1, 40>>, <<66928, 66938, 1, 39>>, <<66940, 66954, 1, 39>>, <<66956, 66962, 1, 39>>,
      <<66964, 66965, 1, 39>>, <<68736, 68786, 1, 64>>, <<71840, 71871, 1, 32>>, <<93760, 93791, 1, 32>>,
      <<125184, 125217, 1, 34>>>>

\* the cased characters that are not case-ignorable, as <<first, last>>
CasedRanges ==
    <<<<65, 90>>, <<97, 122>>, <<170, 170>>, <<181, 181>>, <<186, 186>>, <<192, 214>>,
      <<216, 246>>, <<248, 442>>, <<444, 447>>, <<452, 659>>, <<661, 687>>, <<880, 883>>,
      <<886, 887>>, <<891, 893>>, <<895, 895>>, <<902, 902>>, <<904, 906>>, <<908, 908>>,
      <<910, 929>>, <<931, 1013>>, <<1015, 1153>>, <<1162, 1327>>, <<1329, 1366>>, <<1376, 1416>>,
      <<4256, 4293>>, <<4295, 4295>>, <<4301, 4301>>, <<4304, 4346>>, <<4349, 4351>>, <<5024, 5109>>,
      <<5112, 5117>>, <<7296, 7304>>, <<7312, 7354>>, <<7357, 7359>>, <<7424, 7467>>, <<7531, 7543>>,
      <<7545, 7578>>, <<7680, 7957>>, <<7960, 7965>>, <<7968, 8005>>, <<8008, 8013>>, <<8016, 8023>>,
      <<8025, 8025>>, <<8027, 8027>>, <<8029, 8029>>, <<8031, 8061>>, <<8064, 8116>>, <<8118, 8124>>,
      <<8126, 8126>>, <<8130, 8132>>, <<8134, 8140>>, <<8144, 8147>>, <<8150, 8155>>, <<8160, 8172>>,
      <<8178, 8180>>, <<8182, 8188>>, <<8450, 8450>>, <<8455, 8455>>, <<8458, 8467>>, <<8469, 8469>>,
      <<8473, 8477>>, <<8484, 8484>>, <<8486, 8486>>, <<8488, 8488>>, <<8490, 8493>>, <<8495, 8500>>,
      <<8505, 8505>>, <<8508, 8511>>, <<8517, 8521>>, <<8526, 8526>>, <<8544, 8575>>, <<8579, 8580>>,
      <<9398, 9449>>, <<11264, 11387>>, <<11390, 11492>>, <<11499, 11502>>, <<11506, 11507>>, <<11520, 11557>>,
      <<11559, 11559>>, <<11565, 11565>>, <<42560, 42605>>, <<42624, 42651>>, <<42786, 42863>>, <<42865, 42887>>,
      <<42891, 42894>>, <<42896, 42954>>, <<42960, 42961>>, <<42963, 42963>>, <<42965, 42969>>, <<42997, 42998>>,
      <<43002, 43002>>, <<43824, 43866>>, <<43872, 43880>>, <<43888, 43967>>, <<64256, 64262>>, <<64275, 64279>>,
      <<65313, 65338>>, <<65345, 65370>>, <<66560, 66639>>, <<66736, 66771>>, <<66776, 66811>>, <<66928, 66938>>,
      <<66940, 66954>>, <<66956, 66962>>, <<66964, 66965>>, <<66967, 66977>>, <<66979, 66993>>, <<66995, 67001>>,
      <<67003, 67004>>, <<68736, 68786>>, <<68800, 68850>>, <<71840, 71903>>, <<93760, 93823>>, <<119808, 119892>>,
      <<119894, 119964>>, <<119966, 119967>>, <<119970, 119970>>, <<119973, 119974>>, <<119977, 119980>>, <<119982, 119993>>,
      <<119995, 119995>>, <<119997, 120003>>, <<120005, 120069>>, <<120071, 120074>>, <<120077, 120084>>, <<120086, 120092>>,
      <<120094, 120121>>, <<120123, 120126>>, <<120128, 120132>>, <<120134, 120134>>, <<120138, 120144>>, <<120146, 120485>>,
      <<120488, 120512>>, <<120514, 120538>>, <<120540, 120570>>, <<120572, 120596>>, <<120598, 120628>>, <<120630, 120654>>,
      <<120656, 120686>>, <<120688, 120712>>, <<120714, 120744>>, <<120746, 120770>>, <<120772, 120779>>, <<122624, 122633>>,
      <<122635, 122654>>, <<125184, 125251>>, <<127280, 127305>>, <<127312, 127337>>, <<127344, 127369>>>>

\* the case-ignorable characters, as <<first, last>>
CaseIgnorableRanges ==
    <<<<39, 39>>, <<46, 46>>, <<58, 58>>, <<94, 94>>, <<96, 96>>, <<168, 168>>,
      <<173, 173>>, <<175, 175>>, <<180, 180>>, <<183, 184>>, <<688, 879>>, <<884, 885>>,
      <<890, 890>>, <<900, 901>>, <<903, 903>>, <<1155, 1161>>, <<1369, 1369>>, <<1375, 1375>>,
      <<1425, 1469>>, <<1471, 1471>>, <<1473, 1474>>, <<1476, 1477>>, <<1479, 1479>>, <<1524, 1524>>,
      <<1536, 1541>>, <<1552, 1562>>, <<1564, 1564>>, <<1600, 1600>>, <<1611, 1631>>, <<1648, 1648>>,
      <<1750, 1757>>, <<1759, 1768>>, <<1770, 1773>>, <<1807, 1807>>, <<1809, 1809>>, <<1840, 1866>>,
      <<1958, 1968>>, <<2027, 2037>>, <<2042, 2042>>, <<2045, 2045>>, <<2070, 2093>>, <<2137, 2139>>,
      <<2184, 2184>>, <<2192, 2193>>, <<2200, 2207>>, <<2249, 2306>>, <<2362, 2362>>, <<2364, 2364>>,
      <<2369, 2376>>, <<2381, 2381>>, <<2385, 2391>>, <<2402, 2403>>, <<2417, 2417>>, <<2433, 2433>>,
      <<2492, 2492>>, <<2497, 2500>>, <<2509, 2509>>, <<2530, 2531>>, <<2558, 2558>>, <<2561, 2562>>,
      <<2620, 2620>>, <<2625, 2626>>, <<2631, 2632>>, <<2635, 2637>>, <<2641, 2641>>, <<2672, 2673>>,
      <<2677, 2677>>, <<2689, 2690>>, <<2748, 2748>>, <<2753, 2757>>, <<2759, 2760>>, <<2765, 2765>>,
      <<2786, 2787>>, <<2810, 2815>>, <<2817, 2817>>, <<2876, 2876>>, <<2879, 2879>>, <<2881, 2884>>,
      <<2893, 2893>>, <<2901, 2902>>, <<2914, 2915>>, <<2946, 2946>>, <<3008, 3008>>, <<3021, 3021>>,
      <<3072, 3072>>, <<3076, 3076>>, <<3132, 3132>>, <<3134, 3136>>, <<3142, 3144>>, <<3146, 3149>>,
      <<3157, 3158>>, <<3170, 3171>>, <<3201, 3201>>, <<3260, 3260>>, <<3263, 3263>>, <<3270, 3270>>,
      <<3276, 3277>>, <<3298, 3299>>, <<3328, 3329>>, <<3387, 3388>>, <<3393, 3396>>, <<3405, 3405>>,
      <<3426, 3427>>, <<3457, 3457>>, <<3530, 3530>>, <<3538, 3540>>, <<3542, 3542>>, <<3633, 3633>>,
      <<3636, 3642>>, <<3654, 3662>>, <<3761, 3761>>, <<3764, 3772>>, <<3782, 3782>>, <<3784, 3789>>,
      <<3864, 3865>>, <<3893, 3893>>, <<3895, 3895>>, <<3897, 3897>>, <<3953, 3966>>, <<3968, 3972>>,
      <<3974, 3975>>, <<3981, 3991>>, <<3993, 4028>>, <<4038, 4038>>, <<4141, 4144>>, <<4146, 4151>>,
      <<4153, 4154>>, <<4157, 4158>>, <<4184, 4185>>, <<4190, 4192>>, <<4209, 4212>>, <<4226, 4226>>,
      <<4229, 4230>>, <<4237, 4237>>, <<4253, 4253>>, <<4348, 4348>>, <<4957, 4959>>, <<5906, 5908>>,
      <<5938, 5939>>, <<5970, 5971>>, <<6002, 6003>>, <<6068, 6069>>, <<6071, 6077>>, <<6086, 6086>>,
      <<6089, 6099>>, <<6103, 6103>>, <<6109, 6109>>, <<6155, 6159>>, <<6211, 6211>>, <<6277, 6278>>,
      <<6313, 6313>>, <<6432, 6434>>, <<6439, 6440>>, <<6450, 6450>>, <<6457, 6459>>, <<6679, 6680>>,
      <<6683, 6683>>, <<6742, 6742>>, <<6744, 6750>>, <<6752, 6752>>, <<6754, 6754>>, <<6757, 6764>>,
      <<6771, 6780>>, <<6783, 6783>>, <<6823, 6823>>, <<6832, 6862>>, <<6912, 6915>>, <<6964, 6964>>,
      <<6966, 6970>>, <<6972, 6972>>, <<6978, 6978>>, <<7019, 7027>>, <<7040, 7041>>, <<7074, 7077>>,
      <<7080, 7081>>, <<7083, 7085>>, <<7142, 7142>>, <<7144, 7145>>, <<7149, 7149>>, <<7151, 7153>>,
      <<7212, 7219>>, <<7222, 7223>>, <<7288, 7293>>, <<7376, 7378>>, <<7380, 7392>>, <<7394, 7400>>,
      <<7405, 7405>>, <<7412, 7412>>, <<7416, 7417>>, <<7468, 7530>>, <<7544, 7544>>, <<7579, 7679>>,
      <<8125, 8125>>, <<8127, 8129>>, <<8141, 8143>>, <<8157, 8159>>, <<8173, 8175>>, <<8189, 8190>>,
      <<8203, 8207>>, <<8216, 8217>>, <<8228, 8228>>, <<8231, 8231>>, <<8234, 8238>>, <<8288, 8292>>,
      <<8294, 8303>>, <<8305, 8305>>, <<8319, 8319>>, <<8336, 8348>>, <<8400, 8432>>, <<11388, 11389>>,
      <<11503, 11505>>, <<11631, 11631>>, <<11647, 11647>>, <<11744, 11775>>, <<11823, 11823>>, <<12293, 12293>>,
      <<12330, 12333>>, <<12337, 12341>>, <<12347, 12347>>, <<12441, 12446>>, <<12540, 12542>>, <<40981, 40981>>,
      <<42232, 42237>>, <<42508, 42508>>, <<42607, 42610>>, <<42612, 42621>>, <<42623, 42623>>, <<42652, 42655>>,
      <<42736, 42737>>, <<42752, 42785>>, <<42864, 42864>>, <<42888, 42890>>, <<42994, 42996>>, <<43000, 43001>>,
      <<43010, 43010>>, <<43014, 43014>>, <<43019, 43019>>, <<43045, 43046>>, <<43052, 43052>>, <<43204, 43205>>,
      <<43232, 43249>>, <<43263, 43263>>, <<43302, 43309>>, <<43335, 43345>>, <<43392, 43394>>, <<43443, 43443>>,
      <<43446, 43449>>, <<43452, 43453>>, <<43471, 43471>>, <<43493, 43494>>, <<43561, 43566>>, <<43569, 43570>>,
      <<43573, 43574>>, <<43587, 43587>>, <<43596, 43596>>, <<43632, 43632>>, <<43644, 43644>>, <<43696, 43696>>,
      <<43698, 43700>>, <<43703, 43704>>, <<43710, 43711>>, <<43713, 43713>>, <<43741, 43741>>, <<43756, 43757>>,
      <<43763, 43764>>, <<43766, 43766>>, <<43867, 43871>>, <<43881, 43883>>, <<44005, 44005>>, <<44008, 44008>>,
      <<44013, 44013>>, <<64286, 64286>>, <<64434, 64450>>, <<65024, 65039>>, <<65043, 65043>>, <<65056, 65071>>,
      <<65106, 65106>>, <<65109, 65109>>, <<65279, 65279>>, <<65287, 65287>>, <<65294, 65294>>, <<65306, 65306>>,
      <<65342, 65342>>, <<65344, 65344>>, <<65392, 65392>>, <<65438, 65439>>, <<65507, 65507>>, <<65529, 65531>>,
      <<66045, 66045>>, <<66272, 66272>>, <<66422, 66426>>, <<67456, 67461>>, <<67463, 67504>>, <<67506, 67514>>,
      <<68097, 68099>>, <<68101, 68102>>, <<68108, 68111>>, <<68152, 68154>>, <<68159, 68159>>, <<68325, 68326>>,
      <<68900, 68903>>, <<69291, 69292>>, <<69446, 69456>>, <<69506, 69509>>, <<69633, 69633>>, <<69688, 69702>>,
      <<69744, 69744>>, <<69747, 69748>>, <<69759, 69761>>, <<69811, 69814>>, <<69817, 69818>>, <<69821, 69821>>,
      <<69826, 69826>>, <<69837, 69837>>, <<69888, 69890>>, <<69927, 69931>>, <<69933, 69940>>, <<70003, 70003>>,
      <<70016, 70017>>, <<70070, 70078>>, <<70089, 70092>>, <<70095, 70095>>, <<70191, 70193>>, <<70196, 70196>>,
      <<70198, 70199>>, <<70206, 70206>>, <<70367, 70367>>, <<70371, 70378>>, <<70400, 70401>>, <<70459, 70460>>,
      <<70464, 70464>>, <<70502, 70508>>, <<70512, 70516>>, <<70712, 70719>>, <<70722, 70724>>, <<70726, 70726>>,
      <<70750, 70750>>, <<70835, 70840>>, <<70842, 70842>>, <<70847, 70848>>, <<70850, 70851>>, <<71090, 71093>>,
      <<71100, 71101>>, <<71103, 71104>>, <<71132, 71133>>, <<71219, 71226>>, <<71229, 71229>>, <<71231, 71232>>,
      <<71339, 71339>>, <<71341, 71341>>, <<71344, 71349>>, <<71351, 71351>>, <<71453, 71455>>, <<71458, 71461>>,
      <<71463, 71467>>, <<71727, 71735>>, <<71737, 71738>>, <<71995, 71996>>, <<71998, 71998>>, <<72003, 72003>>,
      <<72148, 72151>>, <<72154, 72155>>, <<72160, 72160>>, <<72193, 72202>>, <<72243, 72248>>, <<72251, 72254>>,
      <<72263, 72263>>, <<72273, 72278>>, <<72281, 72283>>, <<72330, 72342>>, <<72344, 72345>>, <<72752, 72758>>,
      <<72760, 72765>>, <<72767, 72767>>, <<72850, 72871>>, <<72874, 72880>>, <<72882, 72883>>, <<72885, 72886>>,
      <<73009, 73014>>, <<73018, 73018>>, <<73020, 73021>>, <<73023, 73029>>, <<73031, 73031>>, <<73104, 73105>>,
      <<73109, 73109>>, <<73111, 73111>>, <<73459, 73460>>, <<78896, 78904>>, <<92912, 92916>>, <<92976, 92982>>,
      <<92992, 92995>>, <<94031, 94031>>, <<94095, 94111>>, <<94176, 94177>>, <<94179, 94180>>, <<110576, 110579>>,
      <<110581, 110587>>, <<110589, 110590>>, <<113821, 113822>>, <<113824, 113827>>, <<118528, 118573>>, <<118576, 118598>>,
      <<119143, 119145>>, <<119155, 119170>>, <<119173, 119179>>, <<119210, 119213>>, <<119362, 119364>>, <<121344, 121398>>,
      <<121403, 121452>>, <<121461, 121461>>, <<121476, 121476>>, <<121499, 121503>>, <<121505, 121519>>, <<122880, 122886>>,
      <<122888, 122904>>, <<122907, 122913>>, <<122915, 122916>>, <<122918, 122922>>, <<123184, 123197>>, <<123566, 123566>>,
      <<123628, 123631>>, <<125136, 125142>>, <<125252, 125259>>, <<127995, 127999>>, <<917505, 917505>>, <<917536, 917631>>,
      <<917760, 917999>>>>

InRanges(c, ranges) ==
    \E k \in DOMAIN ranges : ranges[k][1] <= c /\ c <= ranges[k][2]

Cased(c) == InRanges(c, CasedRanges)
CaseIgnorable(c) == InRanges(c, CaseIgnorableRanges)

\* the capital sigma at s[i] ends a word: a cased character before it and
\* none after it, case-ignorable characters skipped
FinalSigma(s, i) ==
    LET before == {j \in 1..(i - 1) : ~CaseIgnorable(s[j])}
        after == {j \in (i + 1)..Len(s) : ~CaseIgnorable(s[j])}
    IN  /\ before # {}
        /\ Cased(s[SetMax(before)])
        /\ after = {} \/ ~Cased(s[SetMin(after)])

\* str.lower() of one character that stays one character
LowerChar(c) ==
    IF c < 128 THEN (IF c \in 65..90 THEN c + 32 ELSE c)
    ELSE LET hit == {k \in DOMAIN LowerRanges :
                        /\ LowerRanges[k][1] <= c
                        /\ c <= LowerRanges[k][2]
                        /\ (c - LowerRanges[k][1]) % LowerRanges[k][3] = 0}
         IN  IF hit = {} THEN c ELSE c + LowerRanges[CHOOSE k \in hit : TRUE][4]

\* str.lower() of s[i]: U+0130 becomes two characters, and a capital sigma
\* that ends a word becomes the final sigma
LowerAt(s, i) ==
    IF s[i] = 304 THEN <<105, 775>>
    ELSE IF s[i] = 931 /\ FinalSigma(s, i) THEN <<962>>
    ELSE <<LowerChar(s[i])>>

RECURSIVE LowerFrom(_, _)
LowerFrom(s, i) == IF i > Len(s) THEN <<>> ELSE LowerAt(s, i) \o LowerFrom(s, i + 1)

\* str.lower()
Lower(s) ==
    IF \A i \in 1..Len(s) : s[i] < 128
    THEN [i \in 1..Len(s) |-> LowerChar(s[i])]
    ELSE LowerFrom(s, 1)

StripOf(s, blanks) ==
    LET keep == {i \in 1..Len(s) : s[i] \notin blanks}
    IN  IF keep = {} THEN <<>> ELSE SubSeq(s, SetMin(keep), SetMax(keep))

\* str.strip()
Strip(s) == StripOf(s, Whitespace)

\* `sub in s`
Contains(sub, s) ==
    \E i \in 0..(Len(s) - Len(sub)) : SubSeq(s, i + 1, i + Len(sub)) = sub

AllIn(s, from, to, class) == \A i \in from..to : s[i] \in class

AtSign == Ord("@")
FullStop == Ord(".")
Newline == Ord("\n")
PlusSign == Ord("+")
MinusSign == Ord("-")
Underscore == Ord("_")

LocalChars == Letters \cup Digits \cup {FullStop, Underscore, Ord("%"), PlusSign, MinusSign}
DomainChars == Letters \cup Digits \cup {FullStop, MinusSign}

\* the whole of s is  [a-zA-Z0-9._%+-]+ @ [a-zA-Z0-9.-]+ \. [a-zA-Z]{2,}
EmailFull(s) ==
    \E at \in 1..Len(s) : \E dot \in 1..Len(s) :
        /\ s[at] = AtSign
        /\ s[dot] = FullStop
        /\ at >= 2
        /\ AllIn(s, 1, at - 1, LocalChars)
        /\ dot >= at + 2
        /\ AllIn(s, at + 1, dot - 1, DomainChars)
        /\ Len(s) >= dot + 2
        /\ AllIn(s, dot + 1, Len(s), Letters)

\* re.match(email_pattern, s): `$` also matches before one trailing newline
EmailMatch(s) ==
    \/ EmailFull(s)
    \/ /\ Len(s) > 0
       /\ s[Len(s)] = Newline
       /\ EmailFull(SubSeq(s, 1, Len(s) - 1))

\* a decimal digit of any script
IsDigit(c) == \E z \in DigitZeros : z <= c /\ c <= z + 9
DigitVal(c) == c - (CHOOSE z \in DigitZeros : z <= c /\ c <= z + 9)

\* A Python int has no largest value: it is kept as its sign and the decimal
\* digits of its magnitude, the first of them not 0 (none for zero).
PyInt(neg, digits) == [ok |-> TRUE, neg |-> neg /\ digits # <<>>, digits |-> digits]

\* ValueError / TypeError instead of an int
NoInt == [ok |-> FALSE, neg |-> FALSE, digits |-> <<>>]

RECURSIVE NatDigits(_)
NatDigits(n) == IF n = 0 THEN <<>> ELSE NatDigits(n \div 10) \o <<n % 10>>

\* the int of a JSON number
FromInt(n) == IF n < 0 THEN PyInt(TRUE, NatDigits(0 - n)) ELSE PyInt(FALSE, NatDigits(n))

\* the values of the digits of ds, underscores and leading zeros dropped
Significant(ds) ==
    LET d == SelectSeq(ds, LAMBDA c : c # Underscore)
        vals == [i \in 1..Len(d) |-> DigitVal(d[i])]
        nonzero == {i \in 1..Len(vals) : vals[i] # 0}
    IN  IF nonzero = {} THEN <<>>
        ELSE SubSeq(vals, CHOOSE i \in nonzero : \A j \in 1..(i - 1) : vals[j] = 0,
                    Len(vals))

\* the number that a few digits write
RECURSIVE Value(_)
Value(digits) ==
    IF Len(digits) = 0 THEN 0
    ELSE 10 * Value(SubSeq(digits, 1, Len(digits) - 1)) + digits[Len(digits)]

\* n < 0
Negative(n) == n.neg

\* n > limit, for a limit that is not negative
Exceeds(n, limit) ==
    /\ ~n.neg
    /\ \/ Len(n.digits) > Len(NatDigits(limit))
       \/ Len(n.digits) = Len(NatDigits(limit)) /\ Value(n.digits) > limit

\* sys.get_int_max_str_digits(): int() refuses a string of more digits
int_max_str_digits == 4300

\* the digits that the limit counts: underscores, sign and blanks are not
DigitCount(ds) == Cardinality({i \in 1..Len(ds) : ds[i] # Underscore})

\* digits, with single underscores allowed between two digits
DigitString(ds) ==
    /\ Len(ds) > 0
    /\ \A i \in 1..Len(ds) : IsDigit(ds[i]) \/ ds[i] = Underscore
    /\ ds[1] # Underscore
    /\ ds[Len(ds)] # Underscore
    /\ \A i \in 1..(Len(ds) - 1) : ~(ds[i] = Underscore /\ ds[i + 1] = Underscore)

\* int(x)
ParseInt(x) ==
    IF IsInt(x) THEN FromInt(IntOf(x))
    ELSE IF ~IsStr(x) THEN NoInt
    ELSE LET s == StripOf(x.v, IntWhitespace)
             signed == Len(s) > 0 /\ s[1] \in {PlusSign, MinusSign}
             ds == IF signed THEN SubSeq(s, 2, Len(s)) ELSE s
         IN  IF DigitString(ds) /\ DigitCount(ds) <= int_max_str_digits
             THEN PyInt(signed /\ s[1] = MinusSign, Significant(ds))
             ELSE NoInt

(***************************************************************************)
(* The seeded records and the request payloads                            *)
(***************************************************************************)
\* '2025-09-29 21:42:00', the origin of the model's clock
SeedTime == 0

User(id, name, email, age, position, created_at, updated_at) ==
    [id |-> id, name |-> name, email |-> email, age |-> age, position |-> position,
     created_at |-> created_at, updated_at |-> updated_at]

JohnEmail == Str(<<"j","o","h","n",".","d","o","e","@","e","x","a","m","p","l","e",".","c","o","m">>)

SeedUsers ==
    (1 :> User(1, StrV(Str(<<"J","o","h","n"," ","D","o","e">>)), StrV(JohnEmail), IntV(30),
               StrV(Str(<<"S","o","f","t","w","a","r","e"," ","D","e","v","e","l","o","p","e","r">>)),
               SeedTime, SeedTime))
    @@ (2 :> User(2, StrV(Str(<<"J","a","n","e"," ","S","m","i","t","h">>)),
               StrV(Str(<<"j","a","n","e",".","s","m","i","t","h","@","e","x","a","m","p","l","e",".","c","o","m">>)),
               IntV(28), StrV(Str(<<"P","r","o","d","u","c","t"," ","M","a","n","a","g","e","r">>)),
               SeedTime, SeedTime))
    @@ (3 :> User(3, StrV(Str(<<"M","i","k","e"," ","J","o","h","n","s","o","n">>)),
               StrV(Str(<<"m","i","k","e",".","j","o","h","n","s","o","n","@","e","x","a","m","p","l","e",".","c","o","m">>)),
               IntV(35), StrV(Str(<<"D","e","v","O","p","s"," ","E","n","g","i","n","e","e","r">>)),
               SeedTime, SeedTime))

SeedNextId == 4

\* a JSON object: each of the keys the code reads, and two keys it ignores
Payload(name, email, age, position) ==
    [name |-> name, email |-> email, age |-> age, position |-> position,
     id |-> Absent, created_at |-> Absent]

(***************************************************************************)
(* UserManager: the store                                                 *)
(***************************************************************************)
RECURSIVE Ascending(_)
Ascending(S) ==
    IF S = {} THEN <<>> ELSE <<SetMin(S)>> \o Ascending(S \ {SetMin(S)})

\* list(self.users.values()): the dict keeps insertion order, and records are
\* inserted by increasing id
get_all_users(us) ==
    LET ids == Ascending(DOMAIN us) IN [i \in 1..Len(ids) |-> us[ids[i]]]

NoUser == [id |-> 0]

\* self.users.get(user_id)
get_user_by_id(us, user_id) == IF user_id \in DOMAIN us THEN us[user_id] ELSE NoUser

Found(u) == u # NoUser

\* mutant of UserManager_create_user: the id is the largest id in the store
\* plus one; next_id is still incremented
UserManager_create_user_max(us, nid, data, now) ==
    LET user_id == IF DOMAIN us = {} THEN 1 ELSE SetMax(DOMAIN us) + 1
        new_user == User(user_id, Get(data.name), Get(data.email), Get(data.age),
                         Get(data.position), now, now)
    IN  [users |-> (user_id :> new_user) @@ us, next_id |-> nid + 1, user |-> new_user]

UserManager_create_user(us, nid, data, now) ==
    LET new_user == User(nid, Get(data.name), Get(data.email), Get(data.age),
                         Get(data.position), now, now)
    IN  [users |-> (nid :> new_user) @@ us, next_id |-> nid + 1, user |-> new_user]

\* mutant of UserManager_update_user: a key the payload lacks is set to None
UserManager_update_user_replace(us, user_id, data, now) ==
    IF user_id \notin DOMAIN us THEN [users |-> us, user |-> NoUser]
    ELSE LET user == [us[user_id] EXCEPT
                        !.name = Get(data.name),
                        !.email = Get(data.email),
                        !.age = Get(data.age),
                        !.position = Get(data.position),
                        !.updated_at = now]
         IN  [users |-> [us EXCEPT ![user_id] = user], user |-> user]

UserManager_update_user(us, user_id, data, now) ==
    IF user_id \notin DOMAIN us THEN [users |-> us, user |-> NoUser]
    ELSE LET old == us[user_id]
             user == [old EXCEPT
                        !.name = IF Has(data.name) THEN data.name ELSE @,
                        !.email = IF Has(data.email) THEN data.email ELSE @,
                        !.age = IF Has(data.age) THEN data.age ELSE @,
                        !.position = IF Has(data.position) THEN data.position ELSE @,
                        !.updated_at = now]
         IN  [users |-> [us EXCEPT ![user_id] = user], user |-> user]

\* mutant of UserManager_delete_user: the record is read and not removed
UserManager_delete_user_keep(us, user_id) ==
    IF user_id \in DOMAIN us
    THEN [users |-> us, user |-> us[user_id]]
    ELSE [users |-> us, user |-> NoUser]

UserManager_delete_user(us, user_id) ==
    IF user_id \in DOMAIN us
    THEN [users |-> [i \in DOMAIN us \ {user_id} |-> us[i]], user |-> us[user_id]]
    ELSE [users |-> us, user |-> NoUser]

(***************************************************************************)
(* UserManager.validate_user_data                                         *)
(***************************************************************************)
When(cond, msg) == IF cond THEN <<msg>> ELSE <<>>

RequiredMsg(field) ==
    CASE field = "name" -> "Field 'name' is required"
      [] field = "email" -> "Field 'email' is required"
      [] field = "age" -> "Field 'age' is required"
      [] field = "position" -> "Field 'position' is required"

\* `field not in data or not data[field]`
Missing(x) == ~Has(x) \/ ~Truthy(x)

RequiredErrors(data) ==
    When(Missing(data.name), RequiredMsg("name"))
    \o When(Missing(data.email), RequiredMsg("email"))
    \o When(Missing(data.age), RequiredMsg("age"))
    \o When(Missing(data.position), RequiredMsg("position"))

\* re.match on a value that is no string raises TypeError
EmailRaises(x) == Has(x) /\ Truthy(x) /\ ~IsStr(x)
EmailErrors(x) ==
    When(Has(x) /\ Truthy(x) /\ IsStr(x) /\ ~EmailMatch(x.v), "Invalid email format")

AgeErrors(x) ==
    IF Has(x) /\ Truthy(x)
    THEN LET age == ParseInt(x)
         IN  IF age.ok
             THEN When(Negative(age) \/ Exceeds(age, 150),
                       "Age must be between 0 and 150")
             ELSE <<"Age must be a valid number">>
    ELSE <<>>

\* .strip() on a value that is no string raises AttributeError
StripRaises(x) == Has(x) /\ Truthy(x) /\ ~IsStr(x)
NameErrors(x) ==
    When(Has(x) /\ Truthy(x) /\ IsStr(x) /\ Len(Strip(x.v)) < 2,
         "Name must be at least 2 characters long")
PositionErrors(x) ==
    When(Has(x) /\ Truthy(x) /\ IsStr(x) /\ Len(Strip(x.v)) < 2,
         "Position must be at least 2 characters long")

\* raised: the routine ends with an exception and returns no list
validate_user_data(data, is_update) ==
    IF EmailRaises(data.email) \/ StripRaises(data.name) \/ StripRaises(data.position)
    THEN [raised |-> TRUE,
          exc |-> IF EmailRaises(data.email) THEN "TypeError" ELSE "AttributeError",
          errors |-> <<>>]
    ELSE [raised |-> FALSE, exc |-> "",
          errors |-> (IF is_update THEN <<>> ELSE RequiredErrors(data))
                     \o EmailErrors(data.email) \o AgeErrors(data.age)
                     \o NameErrors(data.name) \o PositionErrors(data.position)]

(***************************************************************************)
(* Requests and responses                                                 *)
(***************************************************************************)
NoData == [none |-> TRUE]

\* create_response: the envelope; NoData, <<>> stand for an omitted key
create_response(data, message, status_code, errors, now) ==
    [timestamp |-> now, status_code |-> status_code, data |-> data,
     message |-> message, errors |-> errors]

JsonBody(data) == [is_json |-> TRUE, data |-> data]
NotJson == [is_json |-> FALSE, data |-> Payload(Absent, Absent, Absent, Absent)]

Request(method, route, user_id, body, q) ==
    [method |-> method, route |-> route, user_id |-> user_id, body |-> body, q |-> q]

NotFoundMsg(user_id) == <<"User with ID ", user_id, " not found">>

\* mutant of SameEmail: the addresses are compared as they are written
SameEmailExact(a, b) == a = b

\* a.lower() == b.lower()
SameEmail(a, b) == Lower(a) = Lower(b)

\* the scan of create_user: the first record that ends it decides
RECURSIVE CreateScan(_, _, _)
CreateScan(all, i, email) ==
    IF i > Len(all) THEN "free"
    ELSE IF ~IsStr(all[i].email) \/ ~IsStr(email) THEN "AttributeError"
    ELSE IF SameEmail(all[i].email.v, email.v) THEN "taken"
    ELSE CreateScan(all, i + 1, email)

\* the scan of update_user: the record being updated is skipped
RECURSIVE UpdateScan(_, _, _, _)
UpdateScan(all, i, user_id, email) ==
    IF i > Len(all) THEN "free"
    ELSE IF all[i].id = user_id THEN UpdateScan(all, i + 1, user_id, email)
    ELSE IF ~IsStr(all[i].email) \/ ~IsStr(email) THEN "AttributeError"
    ELSE IF SameEmail(all[i].email.v, email.v) THEN "taken"
    ELSE UpdateScan(all, i + 1, user_id, email)

Unchanged(us, nid, response) == [users |-> us, next_id |-> nid, resp |-> response]

\* mutant of get_users: the count is taken from the next-id counter
get_users_counter(us, nid, now) ==
    LET all == get_all_users(us)
    IN  Unchanged(us, nid,
            create_response([users |-> all, total_count |-> nid - 1],
                            <<"Retrieved ", nid - 1, " users successfully">>, 200, <<>>, now))

\* GET /users
get_users(us, nid, now) ==
    LET all == get_all_users(us)
    IN  Unchanged(us, nid,
            create_response([users |-> all, total_count |-> Len(all)],
                            <<"Retrieved ", Len(all), " users successfully">>, 200, <<>>, now))

\* GET /users/<id>
get_user(us, nid, user_id, now) ==
    LET user == get_user_by_id(us, user_id)
    IN  IF ~Found(user)
        THEN Unchanged(us, nid, create_response(NoData, NotFoundMsg(user_id), 404, <<>>, now))
        ELSE Unchanged(us, nid,
                 create_response([user |-> user], <<"User retrieved successfully">>,
                                 200, <<>>, now))

\* create_user, once the payload is validated: the scan, then the store
create_checked(us, nid, data, now, later) ==
    LET scan == CreateScan(get_all_users(us), 1, data.email)
        made == UserManager_create_user(us, nid, data, now)
    IN  IF scan = "AttributeError"
        THEN Unchanged(us, nid,
                 create_response(NoData, <<"Error creating user">>, 500, <<scan>>, now))
        ELSE IF scan = "taken"
        THEN Unchanged(us, nid,
                 create_response(NoData, <<"User with this email already exists">>,
                                 409, <<>>, now))
        ELSE [users |-> made.users, next_id |-> made.next_id,
              resp |-> create_response([user |-> made.user],
                                       <<"User created successfully">>, 201, <<>>, later)]

\* POST /users: the store reads the clock (now), and create_response reads
\* it again (later)
create_user(us, nid, body, now, later) ==
    IF ~body.is_json
    THEN Unchanged(us, nid,
             create_response(NoData, <<"Request must contain JSON data">>, 400, <<>>, now))
    ELSE LET checked == validate_user_data(body.data, FALSE)
         IN  IF checked.raised
             THEN Unchanged(us, nid,
                      create_response(NoData, <<"Error creating user">>, 500,
                                      <<checked.exc>>, now))
             ELSE IF checked.errors # <<>>
             THEN Unchanged(us, nid,
                      create_response(NoData, <<"Validation failed">>, 400,
                                      checked.errors, now))
             ELSE create_checked(us, nid, body.data, now, later)

\* mutant of update_checked: the store is written before the scan
update_checked_store_first(us, nid, user_id, data, now, later) ==
    LET done == UserManager_update_user(us, user_id, data, now)
        scan == IF Has(data.email)
                THEN UpdateScan(get_all_users(us), 1, user_id, data.email)
                ELSE "free"
    IN  IF scan = "AttributeError"
        THEN [users |-> done.users, next_id |-> nid,
              resp |-> create_response(NoData, <<"Error updating user">>, 500,
                                       <<scan>>, now)]
        ELSE IF scan = "taken"
        THEN [users |-> done.users, next_id |-> nid,
              resp |-> create_response(NoData,
                                       <<"Another user with this email already exists">>,
                                       409, <<>>, now)]
        ELSE [users |-> done.users, next_id |-> nid,
              resp |-> create_response([user |-> done.user],
                                       <<"User updated successfully">>, 200, <<>>, later)]

\* update_user, once the payload is validated: the scan, then the store
update_checked(us, nid, user_id, data, now, later) ==
    LET scan == IF Has(data.email)
                THEN UpdateScan(get_all_users(us), 1, user_id, data.email)
                ELSE "free"
        done == UserManager_update_user(us, user_id, data, now)
    IN  IF scan = "AttributeError"
        THEN Unchanged(us, nid,
                 create_response(NoData, <<"Error updating user">>, 500, <<scan>>, now))
        ELSE IF scan = "taken"
        THEN Unchanged(us, nid,
                 create_response(NoData, <<"Another user with this email already exists">>,
                                 409, <<>>, now))
        ELSE [users |-> done.users, next_id |-> nid,
              resp |-> create_response([user |-> done.user],
                                       <<"User updated successfully">>, 200, <<>>, later)]

\* PUT /users/<id>: the store reads the clock (now), and create_response
\* reads it again (later)
update_user(us, nid, user_id, body, now, later) ==
    IF ~Found(get_user_by_id(us, user_id))
    THEN Unchanged(us, nid, create_response(NoData, NotFoundMsg(user_id), 404, <<>>, now))
    ELSE IF ~body.is_json
    THEN Unchanged(us, nid,
             create_response(NoData, <<"Request must contain JSON data">>, 400, <<>>, now))
    ELSE LET checked == validate_user_data(body.data, TRUE)
         IN  IF checked.raised
             THEN Unchanged(us, nid,
                      create_response(NoData, <<"Error updating user">>, 500,
                                      <<checked.exc>>, now))
             ELSE IF checked.errors # <<>>
             THEN Unchanged(us, nid,
                      create_response(NoData, <<"Validation failed">>, 400,
                                      checked.errors, now))
             ELSE update_checked(us, nid, user_id, body.data, now, later)

\* DELETE /users/<id>
delete_user(us, nid, user_id, now) ==
    LET gone == UserManager_delete_user(us, user_id)
    IN  IF ~Found(gone.user)
        THEN Unchanged(us, nid, create_response(NoData, NotFoundMsg(user_id), 404, <<>>, now))
        ELSE [users |-> gone.users, next_id |-> nid,
              resp |-> create_response([deleted_user |-> gone.user],
                                       <<"User deleted successfully">>, 200, <<>>, now)]

\* one record of the search loop: `or` stops at the first field that contains
\* the query, and .lower() of a field that is no string raises AttributeError
UserMatch(user, query) ==
    IF ~IsStr(user.name) THEN "AttributeError"
    ELSE IF Contains(Lower(query), Lower(user.name.v)) THEN "yes"
    ELSE IF ~IsStr(user.email) THEN "AttributeError"
    ELSE IF Contains(Lower(query), Lower(user.email.v)) THEN "yes"
    ELSE IF ~IsStr(user.position) THEN "AttributeError"
    ELSE IF Contains(Lower(query), Lower(user.position.v)) THEN "yes"
    ELSE "no"

\* An exception leaves the handler.  DEBUG is on, so Flask does not call
\* internal_error: the client gets status 500 with the page of the debugger
\* (the exception itself under the test client), not the envelope.
Unhandled(exc) == [status_code |-> 500, unhandled |-> exc]

\* GET /users/search?q=
search_users(us, nid, q, now) ==
    LET query == Strip(IF Has(q) THEN q.v ELSE <<>>)
        all == get_all_users(us)
        matching_users == SelectSeq(all, LAMBDA user : UserMatch(user, query) = "yes")
    IN  IF query = <<>>
        THEN Unchanged(us, nid,
                 create_response(NoData, <<"Search query parameter 'q' is required">>,
                                 400, <<>>, now))
        ELSE IF \E i \in 1..Len(all) : UserMatch(all[i], query) = "AttributeError"
        THEN Unchanged(us, nid, Unhandled("AttributeError"))
        ELSE Unchanged(us, nid,
                 create_response([users |-> matching_users,
                                  total_count |-> Len(matching_users),
                                  search_query |-> query],
                                 <<"Found ", Len(matching_users), " users matching '",
                                   query, "'">>, 200, <<>>, now))

(***************************************************************************)
(* The requests the model sends                                           *)
(***************************************************************************)
Al == Str(<<"A","l">>)
\* 'QÄ' and 'qä'
Qa == <<81, 196>>
QaLower == <<113, 228>>
Bad == Str(<<"b","a","d">>)
NewEmail == Str(<<"a","@","b",".","c","o">>)
NewEmailUpper == Str(<<"A","@","B",".","C","O">>)
JohnEmailUpper == Str(<<"J","O","H","N",".","D","O","E","@","E","X","A","M","P","L","E",".","C","O","M">>)

\* {name:'', email:'bad', age:-5, position:''}
InvalidUser == Payload(StrV(<<>>), StrV(Bad), IntV(-5), StrV(<<>>))

\* POST bodies: a fresh address, the address of seed record 1 in capitals,
\* the payload of test_create_user_validation, an address that is no string
CreatePayloads ==
    {Payload(StrV(Al), e, IntV(30), StrV(Qa)) :
        e \in {StrV(NewEmailUpper), StrV(JohnEmailUpper), IntV(5)}}
    \cup {InvalidUser,
          Payload(StrV(Str(<<"\f","a"," ">>)), StrV(Str(<<"a","@","b",".","c","o","\n">>)),
                  StrV(Str(<<"a","b","c">>)), Absent),
          Payload(Absent, None, IntV(0), StrV(Str(<<"Q">>)))}

\* PUT bodies: partial payloads, empty and null values, keys the store ignores
UpdatePayloads ==
    {Payload(StrV(Al), Absent, Absent, StrV(Qa)),
     Payload(StrV(<<>>), Absent, Absent, Absent),
     Payload(None, Absent, Absent, Absent),
     Payload(Absent, StrV(NewEmail), IntV(0), Absent),
     Payload(Absent, StrV(JohnEmailUpper), Absent, Absent),
     Payload(Absent, None, Absent, Absent),
     [Payload(Absent, Absent, Absent, Absent)
         EXCEPT !.id = IntV(9), !.created_at = IntV(5)]}

CreateBodies == {JsonBody(d) : d \in CreatePayloads} \cup {NotJson}
UpdateBodies == {JsonBody(d) : d \in UpdatePayloads} \cup {NotJson}

\* the identifiers of the GET and PUT requests: seeded record 1 and the id of
\* the first create (which does not exist at the start)
UserIds == {1, SeedNextId}

\* the identifiers of the DELETE requests: seeded record 1, seeded record 3
\* (the largest seeded id), and the id of the first create
DeleteIds == {1, 3, SeedNextId}

\* q: missing, blank, and three queries
Queries ==
    {Absent, StrV(Str(<<"\f"," ">>)), StrV(Str(<<"J","o","h","n">>)), StrV(Str(<<" ","E","X","A","M","P","L","E">>)),
     StrV(QaLower)}

(***************************************************************************)
(* The state machine: one request per step                                *)
(***************************************************************************)
NoRequest == Request("", "", 0, NotJson, Absent)
NoResponse == create_response(NoData, <<>>, 0, <<>>, SeedTime)

Init ==
    /\ users = SeedUsers
    /\ next_id = SeedNextId
    /\ clock = SeedTime
    /\ req = NoRequest
    /\ resp = NoResponse
    /\ assigned = DOMAIN SeedUsers
    /\ created = 0
    /\ deleted = 0
    /\ nreq = 0
    /\ threads = <<>>

\* the request is handled: the store, the response and the request log;
\* later is the last reading of the clock that the handler took
Handle(request, out, later) ==
    /\ nreq < MaxReq
    /\ users' = out.users
    /\ next_id' = out.next_id
    /\ resp' = out.resp
    /\ req' = request
    /\ nreq' = nreq + 1
    /\ assigned' = assigned \cup DOMAIN out.users
    /\ created' = IF request.method = "POST" /\ out.resp.status_code = 201
                  THEN created + 1 ELSE created
    /\ deleted' = IF request.method = "DELETE" /\ out.resp.status_code = 200
                  THEN deleted + 1 ELSE deleted
    /\ clock' = later
    /\ UNCHANGED threads

\* the readings datetime.now() can give after the reading now: the same
\* second or the next
Later(now) == {t \in now..(now + 1) : t <= MaxClock}

\* datetime.now() moves on by a second between two requests, or between two
\* steps of the requests in flight
Tick ==
    /\ clock < MaxClock
    /\ clock' = clock + 1
    /\ UNCHANGED <<users, next_id, req, resp, assigned, created, deleted, nreq, threads>>

GetUsers ==
    Handle(Request("GET", "/users", 0, NotJson, Absent), get_users(users, next_id, clock),
           clock)

GetUser(user_id) ==
    Handle(Request("GET", "/users/<id>", user_id, NotJson, Absent),
           get_user(users, next_id, user_id, clock), clock)

\* a request that is refused reads the clock once, in create_response; one
\* that writes the store reads it a second time
PostUsers(body) ==
    LET request == Request("POST", "/users", 0, body, Absent)
        out == create_user(users, next_id, body, clock, clock)
    IN  /\ next_id <= MaxId
        /\ IF out.resp.status_code # 201
           THEN Handle(request, out, clock)
           ELSE \E later \in Later(clock) :
                    Handle(request, create_user(users, next_id, body, clock, later), later)

PutUser(user_id, body) ==
    LET request == Request("PUT", "/users/<id>", user_id, body, Absent)
        out == update_user(users, next_id, user_id, body, clock, clock)
    IN  IF out.resp.status_code # 200
        THEN Handle(request, out, clock)
        ELSE \E later \in Later(clock) :
                 Handle(request, update_user(users, next_id, user_id, body, clock, later),
                        later)

DeleteUser(user_id) ==
    Handle(Request("DELETE", "/users/<id>", user_id, NotJson, Absent),
           delete_user(users, next_id, user_id, clock), clock)

SearchUsers(q) ==
    Handle(Request("GET", "/users/search", 0, NotJson, q),
           search_users(users, next_id, q, clock), clock)

Next ==
    \/ Tick
    \/ GetUsers
    \/ \E user_id \in UserIds : GetUser(user_id)
    \/ \E body \in CreateBodies : PostUsers(body)
    \/ \E user_id \in UserIds, body \in UpdateBodies : PutUser(user_id, body)
    \/ \E user_id \in DeleteIds : DeleteUser(user_id)
    \/ \E q \in Queries : SearchUsers(q)

Spec == Init /\ [][Next]_vars

(***************************************************************************)
(* Properties                                                             *)
(***************************************************************************)
\* the step handles a request (Tick handles none)
Handled == nreq' = nreq + 1

ErrorStatus == {400, 404, 409, 500}

\* two stored emails are equal when compared without regard to letter case
EqualIgnoringCase(a, b) ==
    IF IsStr(a) /\ IsStr(b) THEN Lower(a.v) = Lower(b.v) ELSE a = b

\* C1: in every reachable state no two stored records have emails that are
\* equal when compared case-insensitively.
C1_EmailsUnique ==
    \A i \in DOMAIN users : \A j \in DOMAIN users :
        i # j => ~EqualIgnoringCase(users[i].email, users[j].email)

\* C1 witness: a POST whose address differs only in letter case from the one a
\* PUT gave to record 1 has been refused, and that record is still stored.
C1_Witness ==
    /\ req.method = "POST"
    /\ resp.status_code = 409
    /\ req.body.data.email = StrV(NewEmailUpper)
    /\ 1 \in DOMAIN users
    /\ users[1].email = StrV(NewEmail)

\* name, email, age and position of a record are all populated
Populated(u) ==
    /\ IsStr(u.name) /\ Len(Strip(u.name.v)) >= 2
    /\ IsStr(u.position) /\ Len(Strip(u.position.v)) >= 2
    /\ IsStr(u.email) /\ Len(u.email.v) > 0
    /\ IsInt(u.age) /\ IntOf(u.age) >= 0 /\ IntOf(u.age) <= 150

\* C2: every stored record has name, email, age and position populated (name
\* and position strings of trimmed length >= 2, email a non-empty string, age
\* an integer in 0..150); no accepted PUT stores an empty or null value.
C2_AllPopulated == \A i \in DOMAIN users : Populated(users[i])

\* C3: a successful POST assigns an identifier greater than every identifier
\* assigned before it (those of deleted records included); the first one is
\* 4; a GET of that identifier right after returns the record the POST returned.
C3_FreshIdentifier ==
    [][(Handled /\ req'.method = "POST" /\ resp'.status_code = 201) =>
          LET user == resp'.data.user
          IN  /\ \A id \in assigned : user.id > id
              /\ created = 0 => user.id = 4
              /\ get_user(users', next_id', user.id, clock').resp.status_code = 200
              /\ get_user(users', next_id', user.id, clock').resp.data.user = user]_vars

\* C3 witness: the second create of a run, answered after the record of the
\* first create (id 4, the largest id of the store at that time) was deleted,
\* got id 5.
C3_Witness ==
    /\ req.method = "POST"
    /\ resp.status_code = 201
    /\ created = 2
    /\ deleted = 1
    /\ assigned = 1..5
    /\ 4 \notin DOMAIN users
    /\ resp.data.user.id = 5
    /\ users[5] = resp.data.user

\* C4: a successful PUT changes, in the target record, exactly the fields of
\* name, email, age, position that the payload carries, each to the payload's
\* value; id and created_at stay (also when the payload carries those keys),
\* updated_at is set to the current time, and the other records and the
\* next-id counter are unchanged.
C4_UpdateFrame ==
    [][(Handled /\ req'.method = "PUT" /\ resp'.status_code = 200) =>
          LET id == req'.user_id
              data == req'.body.data
          IN  /\ DOMAIN users' = DOMAIN users
              /\ id \in DOMAIN users
              /\ \A other \in DOMAIN users \ {id} : users'[other] = users[other]
              /\ next_id' = next_id
              /\ users'[id].name = IF Has(data.name) THEN data.name ELSE users[id].name
              /\ users'[id].email = IF Has(data.email) THEN data.email ELSE users[id].email
              /\ users'[id].age = IF Has(data.age) THEN data.age ELSE users[id].age
              /\ users'[id].position =
                     IF Has(data.position) THEN data.position ELSE users[id].position
              /\ users'[id].id = users[id].id
              /\ users'[id].created_at = users[id].created_at
              /\ users'[id].updated_at = clock
              /\ resp'.data.user = users'[id]]_vars

\* C4 witness: after a PUT that named name and position only, a PUT that
\* carries only `id` and `created_at` has been accepted a second later: the
\* record keeps the new name and its old email.
C4_Witness ==
    /\ req.method = "PUT"
    /\ resp.status_code = 200
    /\ Has(req.body.data.id)
    /\ Has(req.body.data.created_at)
    /\ users[req.user_id].name = StrV(Al)
    /\ users[req.user_id].email = StrV(JohnEmail)
    /\ users[req.user_id].updated_at > users[req.user_id].created_at

\* the payload passes validation: the routine returns an empty list
PassesValidation(data, is_update) ==
    LET checked == validate_user_data(data, is_update)
    IN  ~checked.raised /\ checked.errors = <<>>

\* C5: a validated POST is answered 409 if its email equals, letter case
\* ignored, the email of a stored record, and 201 otherwise; a validated PUT on
\* an existing id is answered 409 if its email equals that of a stored record
\* with another id, and 200 otherwise.
C5_ConflictExactly ==
    [][Handled =>
          LET data == req'.body.data
          IN  /\ (/\ req'.method = "POST"
                  /\ req'.body.is_json
                  /\ PassesValidation(data, FALSE))
                 => resp'.status_code =
                        IF \E i \in DOMAIN users :
                               EqualIgnoringCase(users[i].email, data.email)
                        THEN 409 ELSE 201
              /\ (/\ req'.method = "PUT"
                  /\ req'.user_id \in DOMAIN users
                  /\ req'.body.is_json
                  /\ PassesValidation(data, TRUE))
                 => resp'.status_code =
                        IF /\ Has(data.email)
                           /\ \E i \in DOMAIN users \ {req'.user_id} :
                                  EqualIgnoringCase(users[i].email, data.email)
                        THEN 409 ELSE 200]_vars

\* C5, while every stored email is a string and the payload's email is a
\* string or missing: the answers are as C5 says.
C5_StringEmails ==
    [][(/\ Handled
        /\ req'.body.is_json
        /\ \A i \in DOMAIN users : IsStr(users[i].email)
        /\ IsStr(req'.body.data.email) \/ ~Has(req'.body.data.email))
       => LET data == req'.body.data
          IN  /\ (req'.method = "POST" /\ PassesValidation(data, FALSE))
                 => resp'.status_code =
                        IF \E i \in DOMAIN users :
                               EqualIgnoringCase(users[i].email, data.email)
                        THEN 409 ELSE 201
              /\ (/\ req'.method = "PUT"
                  /\ req'.user_id \in DOMAIN users
                  /\ PassesValidation(data, TRUE))
                 => resp'.status_code =
                        IF /\ Has(data.email)
                           /\ \E i \in DOMAIN users \ {req'.user_id} :
                                  EqualIgnoringCase(users[i].email, data.email)
                        THEN 409 ELSE 200]_vars

\* C6: a request answered 400, 404, 409 or 500 leaves the records, every field
\* of every record and the next-id counter as they were.
C6_ErrorsChangeNothing ==
    [][(Handled /\ resp'.status_code \in ErrorStatus) =>
          (users' = users /\ next_id' = next_id)]_vars

\* C6 witness: a PUT has been answered 409 after the store had been changed.
C6_Witness ==
    /\ req.method = "PUT"
    /\ resp.status_code = 409
    /\ created = 1
    /\ users # SeedUsers

\* C7: a successful DELETE returns the removed record; from then on GET and
\* DELETE of that id are answered 404, the DELETE changing nothing, and the id
\* never has a record again.
C7_DeletedStaysDeleted ==
    [][/\ (Handled /\ req'.method = "DELETE" /\ resp'.status_code = 200)
          => /\ req'.user_id \in DOMAIN users
             /\ resp'.data.deleted_user = users[req'.user_id]
             /\ req'.user_id \notin DOMAIN users'
       /\ \A id \in assigned \ DOMAIN users :
             /\ id \notin DOMAIN users'
             /\ (Handled /\ req'.user_id = id /\ req'.method = "GET"
                    /\ req'.route = "/users/<id>")
                => resp'.status_code = 404
             /\ (Handled /\ req'.user_id = id /\ req'.method = "DELETE")
                => (resp'.status_code = 404 /\ users' = users /\ next_id' = next_id)]_vars

\* C7 witness: record 1 has been deleted, a record has been created since, and
\* a second DELETE of id 1 has been answered 404.
C7_Witness ==
    /\ req.method = "DELETE"
    /\ req.user_id = 1
    /\ resp.status_code = 404
    /\ deleted = 1
    /\ created = 1

Msg(cond, msg) == IF cond THEN {msg} ELSE {}

\* the value is present and non-empty
NonEmpty(x) == Has(x) /\ Truthy(x)

\* the messages the validation rules give for a create payload
ExpectedErrors(data) ==
    Msg(~NonEmpty(data.name), RequiredMsg("name"))
    \cup Msg(~NonEmpty(data.email), RequiredMsg("email"))
    \cup Msg(~NonEmpty(data.age), RequiredMsg("age"))
    \cup Msg(~NonEmpty(data.position), RequiredMsg("position"))
    \cup Msg(NonEmpty(data.email) /\ ~(IsStr(data.email) /\ EmailMatch(data.email.v)),
             "Invalid email format")
    \cup Msg(NonEmpty(data.age) /\ ~ParseInt(data.age).ok, "Age must be a valid number")
    \cup Msg(/\ NonEmpty(data.age)
             /\ ParseInt(data.age).ok
             /\ (Negative(ParseInt(data.age)) \/ Exceeds(ParseInt(data.age), 150)),
             "Age must be between 0 and 150")
    \cup Msg(NonEmpty(data.name) /\ ~(IsStr(data.name) /\ Len(Strip(data.name.v)) >= 2),
             "Name must be at least 2 characters long")
    \cup Msg(/\ NonEmpty(data.position)
             /\ ~(IsStr(data.position) /\ Len(Strip(data.position.v)) >= 2),
             "Position must be at least 2 characters long")

\* C8: validation of a create payload gives one "required" message for each
\* missing or empty field and the message of every present non-empty field
\* that breaks its rule; if there is any, POST /users is answered 400 with
\* those messages; the payload {name:'', email:'bad', age:-5, position:''}
\* gets at least 4 distinct messages.
C8_AllMessages ==
    (req.method = "POST" /\ req.body.is_json) =>
        LET expected == ExpectedErrors(req.body.data)
        IN  /\ expected # {} =>
                  /\ resp.status_code = 400
                  /\ Range(resp.errors) = expected
                  /\ Len(resp.errors) = Cardinality(expected)
            /\ req.body.data = InvalidUser => Cardinality(Range(resp.errors)) >= 4

\* C8, for payloads whose name, email and position are strings, None or
\* missing: the messages are those the rules give, and any message means 400.
C8_StringPayloads ==
    (/\ req.method = "POST"
     /\ req.body.is_json
     /\ \A x \in {req.body.data.name, req.body.data.email, req.body.data.position} :
            ~IsInt(x))
    => LET expected == ExpectedErrors(req.body.data)
       IN  /\ expected # {} =>
                 /\ resp.status_code = 400
                 /\ Range(resp.errors) = expected
                 /\ Len(resp.errors) = Cardinality(expected)
           /\ expected = {} => resp.status_code \in {201, 409, 500}
           /\ req.body.data = InvalidUser => Cardinality(Range(resp.errors)) = 4

\* a stored record contains the query in its name, email or position
Matches(u, query) ==
    \/ IsStr(u.name) /\ Contains(Lower(query), Lower(u.name.v))
    \/ IsStr(u.email) /\ Contains(Lower(query), Lower(u.email.v))
    \/ IsStr(u.position) /\ Contains(Lower(query), Lower(u.position.v))

\* C9: a search with a non-blank q is answered 200 with exactly the stored
\* records whose name, email or position contains q, letter case ignored, and
\* their number as total_count; a missing or blank q is answered 400.
C9_SearchExact ==
    (req.method = "GET" /\ req.route = "/users/search") =>
        LET query == Strip(IF Has(req.q) THEN req.q.v ELSE <<>>)
        IN  IF query = <<>> THEN resp.status_code = 400
            ELSE /\ resp.status_code = 200
                 /\ Range(resp.data.users) =
                        {users[i] : i \in {j \in DOMAIN users : Matches(users[j], query)}}
                 /\ resp.data.total_count =
                        Cardinality({j \in DOMAIN users : Matches(users[j], query)})

\* C9, while name, email and position of every stored record are strings: the
\* answers are as C9 says, and the search changes nothing.
C9_StringRecords ==
    (/\ req.method = "GET"
     /\ req.route = "/users/search"
     /\ \A i \in DOMAIN users :
            IsStr(users[i].name) /\ IsStr(users[i].email) /\ IsStr(users[i].position))
    => LET query == Strip(IF Has(req.q) THEN req.q.v ELSE <<>>)
       IN  IF query = <<>> THEN resp.status_code = 400
           ELSE /\ resp.status_code = 200
                /\ Range(resp.data.users) =
                       {users[i] : i \in {j \in DOMAIN users : Matches(users[j], query)}}
                /\ resp.data.total_count =
                       Cardinality({j \in DOMAIN users : Matches(users[j], query)})
                /\ Len(resp.data.users) = resp.data.total_count

\* C10: GET /users returns every stored record once and a total_count of 3
\* plus the POSTs answered 201 minus the DELETEs answered 200; a DELETE
\* changes the presence of no id but its own.
C10_ListAndCount ==
    /\ [](/\ Cardinality(DOMAIN users) = 3 + created - deleted
          /\ (req.method = "GET" /\ req.route = "/users")
             => /\ resp.status_code = 200
                /\ resp.data.total_count = 3 + created - deleted
                /\ Len(resp.data.users) = resp.data.total_count
                /\ Range(resp.data.users) = Range(users)
                /\ \A i \in DOMAIN resp.data.users : \A j \in DOMAIN resp.data.users :
                       resp.data.users[i] = resp.data.users[j] => i = j)
    /\ [][(Handled /\ req'.method = "DELETE") =>
             \A id \in (DOMAIN users \cup DOMAIN users') \ {req'.user_id} :
                 id \in DOMAIN users <=> id \in DOMAIN users']_vars

\* C10 witness: after the create of id 4 and the delete of id 1, GET /users
\* lists three records, id 4 among them and id 1 not.
C10_Witness ==
    /\ req.method = "GET"
    /\ req.route = "/users"
    /\ created = 1
    /\ deleted = 1
    /\ resp.data.total_count = 3
    /\ \E i \in DOMAIN resp.data.users : resp.data.users[i].id = 4
    /\ \A i \in DOMAIN resp.data.users : resp.data.users[i].id # 1

(***************************************************************************)
(* Two POST /users requests at the same time.  app.run serves each        *)
(* request in a thread of its own and no handler takes a lock, so the     *)
(* steps of create_user interleave: the validation and the scan of the    *)
(* emails, the read of next_id, the reading of the clock for the record,  *)
(* the insertion into the mapping, the increment of next_id, and the      *)
(* reading of the clock for the answer.                                   *)
(***************************************************************************)
Threads == 1..MaxThreads

OtherEmail == Str(<<"c","@","d",".","e","u">>)

\* the bodies of the concurrent requests: two addresses that differ in letter
\* case only, a third fresh one, and the address of seed record 1
ConcBodies ==
    {JsonBody(Payload(StrV(Al), StrV(e), IntV(30), StrV(Qa))) :
        e \in {NewEmail, NewEmailUpper, OtherEmail, JohnEmailUpper}}

\* what the handler hands to create_response
Answer(data, message, status_code, errors) ==
    [data |-> data, message |-> message, status_code |-> status_code, errors |-> errors]

NoAnswer == Answer(NoData, <<>>, 0, <<>>)

\* the locals of one request: where it is, its body, user_id and new_user of
\* UserManager.create_user, the answer it is about to give, its response
Thread(pc, body, user_id, new_user, answer, response) ==
    [pc |-> pc, body |-> body, user_id |-> user_id, new_user |-> new_user,
     answer |-> answer, resp |-> response]

ConcInit ==
    /\ users = SeedUsers
    /\ next_id = SeedNextId
    /\ clock = SeedTime
    /\ req = NoRequest
    /\ resp = NoResponse
    /\ assigned = DOMAIN SeedUsers
    /\ created = 0
    /\ deleted = 0
    /\ nreq = 0
    /\ threads \in [Threads -> {Thread("scan", body, 0, NoUser, NoAnswer, NoResponse) :
                                   body \in ConcBodies}]

\* create_user up to the call of the store: is_json, the validation and the
\* scan of the emails; every answer but 201 is decided here
ConcScan(t) ==
    LET out == create_user(users, next_id, threads[t].body, clock, clock)
    IN  /\ threads[t].pc = "scan"
        /\ threads' = [threads EXCEPT ![t] =
                          IF out.resp.status_code = 201
                          THEN [@ EXCEPT !.pc = "read"]
                          ELSE [@ EXCEPT !.pc = "answer",
                                         !.answer = Answer(out.resp.data, out.resp.message,
                                                           out.resp.status_code,
                                                           out.resp.errors)]]
        /\ UNCHANGED <<users, next_id, clock, req, resp, assigned, created, deleted, nreq>>

\* user_id = self.next_id
ConcRead(t) ==
    /\ threads[t].pc = "read"
    /\ threads' = [threads EXCEPT ![t] = [@ EXCEPT !.pc = "now", !.user_id = next_id]]
    /\ UNCHANGED <<users, next_id, clock, req, resp, assigned, created, deleted, nreq>>

\* now = datetime.now(), and the new record
ConcNow(t) ==
    LET data == threads[t].body.data
    IN  /\ threads[t].pc = "now"
        /\ threads' = [threads EXCEPT ![t] =
                          [@ EXCEPT !.pc = "insert",
                                    !.new_user = User(threads[t].user_id, Get(data.name),
                                                      Get(data.email), Get(data.age),
                                                      Get(data.position), clock, clock)]]
        /\ UNCHANGED <<users, next_id, clock, req, resp, assigned, created, deleted, nreq>>

\* self.users[user_id] = new_user
ConcInsert(t) ==
    /\ threads[t].pc = "insert"
    /\ users' = (threads[t].user_id :> threads[t].new_user) @@ users
    /\ assigned' = assigned \cup {threads[t].user_id}
    /\ threads' = [threads EXCEPT ![t] = [@ EXCEPT !.pc = "incr"]]
    /\ UNCHANGED <<next_id, clock, req, resp, created, deleted, nreq>>

\* self.next_id += 1, and the return to the handler with the new record
ConcIncr(t) ==
    /\ threads[t].pc = "incr"
    /\ next_id' = next_id + 1
    /\ threads' = [threads EXCEPT ![t] =
                      [@ EXCEPT !.pc = "answer",
                                !.answer = Answer([user |-> threads[t].new_user],
                                                  <<"User created successfully">>,
                                                  201, <<>>)]]
    /\ UNCHANGED <<users, clock, req, resp, assigned, created, deleted, nreq>>

\* create_response: the clock is read for the timestamp of the answer
ConcAnswer(t) ==
    LET answer == threads[t].answer
    IN  /\ threads[t].pc = "answer"
        /\ created' = IF answer.status_code = 201 THEN created + 1 ELSE created
        /\ threads' = [threads EXCEPT ![t] =
                          [@ EXCEPT !.pc = "done",
                                    !.resp = create_response(answer.data, answer.message,
                                                             answer.status_code,
                                                             answer.errors, clock)]]
        /\ UNCHANGED <<users, next_id, clock, req, resp, assigned, deleted, nreq>>

\* one step of one request
ConcStep(t) ==
    \/ ConcScan(t)
    \/ ConcRead(t)
    \/ ConcNow(t)
    \/ ConcInsert(t)
    \/ ConcIncr(t)
    \/ ConcAnswer(t)

ConcNext ==
    \/ Tick
    \/ \E t \in Threads : ConcStep(t)

SpecConc == ConcInit /\ [][ConcNext]_vars

\* the same requests, each handled from its scan to its answer with no step
\* of another in between
Idle(t) == threads[t].pc \in {"scan", "done"}

SerialNext ==
    \/ Tick
    \/ \E t \in Threads :
           /\ \A other \in Threads \ {t} : Idle(other)
           /\ ConcStep(t)

SpecSerial == ConcInit /\ [][SerialNext]_vars

\* C11: of two POST /users requests handled at the same time, with the scan,
\* the read of next_id, the insertion and the increment interleaved, the two
\* created records never get the same identifier, neither insertion
\* overwrites the other, and two requests with the same email (letter case
\* ignored) are never both answered 201.
C11_ConcurrentCreates ==
    \A t \in Threads : \A other \in Threads \ {t} :
        (threads[t].resp.status_code = 201 /\ threads[other].resp.status_code = 201)
        => /\ threads[t].resp.data.user.id # threads[other].resp.data.user.id
           /\ threads[t].resp.data.user.id \in DOMAIN users
           /\ users[threads[t].resp.data.user.id] = threads[t].resp.data.user
           /\ ~EqualIgnoringCase(threads[t].resp.data.user.email,
                                 threads[other].resp.data.user.email)

\* every request has been answered 201: reached under SpecSerial too, where
\* C11_ConcurrentCreates holds
C11_BothCreated ==
    \A t \in Threads : threads[t].resp.status_code = 201

====
